---- MODULE Spec2Model ----
(***************************************************************************)
(* Model of go_message_dispatcher: the Redis lock (internal/lock), the     *)
(* batch processor (internal/service), the PostgreSQL queue (repository)   *)
(* and the scheduler loop (internal/scheduler).                            *)
(***************************************************************************)
EXTENDS Integers, Sequences, FiniteSets, TLC

\* ------------------------------------------------------------------ bounds
NumInst == 2      \* dispatcher processes, each with one RedisLock handle
LockTTL == 2      \* configured lock TTL, in whole seconds of the store clock
NumMsgs == 3      \* rows of the messages table
MaxInvalid == 1   \* rows that fail the shape filter of GetUnsentMessages
MaxTasks == 2     \* loop goroutines one scheduler can have alive at once
MaxStoppers == 1  \* Stop() calls of one scheduler blocked in wg.Wait at once

\* ------------------------------------------------------- program constants
BatchLimit == 2   \* GetUnsentMessages(ctx, 2)

Inst == 1..NumInst
Msgs == 1..NumMsgs
Tasks == 1..MaxTasks
Workers == Inst \X Tasks     \* <<process, goroutine slot>>
NoToken == 0
NoWorker == <<0, 0>>

VARIABLES
    store,        \* the lock key in Redis: [val |-> token or NoToken, ttl |-> seconds left]
    storeUp,      \* TRUE while Redis answers; FALSE: every call returns a backend error
    acquired,     \* RedisLock.acquired of each handle
    lastOp,       \* history: result of the last call on a lock handle made directly or
                  \* by the extend case of a loop; cleared when that handle's next cycle begins
    expiredHeld,  \* history: handles whose entry expired while acquired was true
    valid,        \* rows that pass the shape filter (phone and content lengths)
    sent,         \* messages.sent of each row
    rowLock,      \* row-level lock of each row: the worker whose statement holds it
    cache,        \* message ids that have a delivery record in the Redis cache
    sendOK,       \* history: ids for which SendMessage has returned success
    pc,           \* position of each worker (goroutine) in its code
    batch,        \* rows returned to each worker by GetUnsentMessages
    idx,          \* index in batch of the message a worker is processing
    res,          \* what the worker's ProcessMessages call returned
    log,          \* history: the calls the current ProcessMessages made, in order
    lockEnabled,  \* MessageScheduler.lockEnabled (same for every process)
    running,      \* MessageScheduler.running
    processing,   \* MessageScheduler.processing
    stoppers,     \* Stop() calls blocked in wg.Wait
    woken,        \* Stop() calls whose wg.Wait has returned and that have not returned yet
    waitFor,      \* history: [calls: ProcessMessages calls in flight when Stop was called,
                  \*           mid: processes whose pending Stop found a call in flight]
    lastCtl,      \* history: the last Start/Stop call that returned, and whether it was a no-op
    lastBatch,    \* history: how the last processBatch of each loop goroutine ended
    oldCtx,       \* workers started under a context that Start has since replaced
    extTicker     \* the ticker s.lockExtendTicker refers to: [st, owner]

lockVars == <<store, storeUp, acquired, lastOp, expiredHeld>>
queueVars == <<valid, sent, rowLock, cache, sendOK>>
workVars == <<pc, batch, idx, res, log>>
schedVars == <<lockEnabled, running, processing, stoppers, oldCtx, extTicker, woken,
               waitFor, lastCtl, lastBatch>>
vars == <<store, storeUp, acquired, lastOp, expiredHeld, valid, sent, rowLock, cache,
          sendOK, pc, batch, idx, res, log, lockEnabled, running, processing, stoppers,
          oldCtx, extTicker, woken, waitFor, lastCtl, lastBatch>>

\* ------------------------------------------------------------ Redis lock
\* generateLockValue: 16 random bytes, one value per handle.
Token(h) == h

EmptyKey == [val |-> NoToken, ttl |-> 0]

\* int(l.ttl.Seconds()): the TTL is configured in whole seconds here.
ExtendSeconds == LockTTL

\* SETNX key value ttl: succeeds only if the key is absent.
SetNXOk == store.val = NoToken

\* redis.call("get", KEYS[1]) == ARGV[1]
ScriptMatch(h) == store.val = Token(h)

NoOp == [h |-> 0, op |-> "none", res |-> "none", evald |-> FALSE]

\* Variant of AcquireOut: SETNX without an expiry, the key never expires.
AcquireOutNoTTL(h) ==
    IF ~storeUp
    THEN [res |-> "Error", store |-> store, held |-> acquired[h], evald |-> FALSE]
    ELSE IF store.val # NoToken
    THEN [res |-> "LockNotAcquired", store |-> store, held |-> acquired[h], evald |-> TRUE]
    ELSE [res |-> "OK", store |-> [val |-> Token(h), ttl |-> 0], held |-> TRUE,
          evald |-> TRUE]

\* Variant of AcquireOut: SET without NX, the key is written whoever owns it.
AcquireOutNoNX(h) ==
    IF ~storeUp
    THEN [res |-> "Error", store |-> store, held |-> acquired[h], evald |-> FALSE]
    ELSE [res |-> "OK", store |-> [val |-> Token(h), ttl |-> LockTTL], held |-> TRUE,
          evald |-> TRUE]

AcquireOut(h) ==
    IF ~storeUp
    THEN [res |-> "Error", store |-> store, held |-> acquired[h], evald |-> FALSE]
    ELSE IF ~SetNXOk
    THEN [res |-> "LockNotAcquired", store |-> store, held |-> acquired[h], evald |-> TRUE]
    ELSE [res |-> "OK", store |-> [val |-> Token(h), ttl |-> LockTTL], held |-> TRUE,
          evald |-> TRUE]

\* Variant of ReleaseOut: DEL without comparing the stored value with the token.
ReleaseOutNoCheck(h) ==
    IF ~acquired[h]
    THEN [res |-> "LockNotHeld", store |-> store, held |-> FALSE, evald |-> FALSE]
    ELSE IF ~storeUp
    THEN [res |-> "Error", store |-> store, held |-> TRUE, evald |-> FALSE]
    ELSE [res |-> "OK", store |-> EmptyKey, held |-> FALSE, evald |-> TRUE]

\* Variant of ReleaseOut: the script is run without looking at l.acquired.
ReleaseOutNoLocalCheck(h) ==
    IF ~storeUp
    THEN [res |-> "Error", store |-> store, held |-> acquired[h], evald |-> FALSE]
    ELSE IF ~ScriptMatch(h)
    THEN [res |-> "LockNotHeld", store |-> store, held |-> FALSE, evald |-> TRUE]
    ELSE [res |-> "OK", store |-> EmptyKey, held |-> FALSE, evald |-> TRUE]

ReleaseOut(h) ==
    IF ~acquired[h]
    THEN [res |-> "LockNotHeld", store |-> store, held |-> FALSE, evald |-> FALSE]
    ELSE IF ~storeUp
    THEN [res |-> "Error", store |-> store, held |-> TRUE, evald |-> FALSE]
    ELSE IF ~ScriptMatch(h)
    THEN [res |-> "LockNotHeld", store |-> store, held |-> FALSE, evald |-> TRUE]
    ELSE [res |-> "OK", store |-> EmptyKey, held |-> FALSE, evald |-> TRUE]

\* Variant of ExtendOut: EXPIRE without comparing the stored value with the token.
ExtendOutNoCheck(h) ==
    IF ~acquired[h]
    THEN [res |-> "LockNotHeld", store |-> store, held |-> FALSE, evald |-> FALSE]
    ELSE IF ~storeUp
    THEN [res |-> "Error", store |-> store, held |-> TRUE, evald |-> FALSE]
    ELSE [res |-> "OK", store |-> [val |-> store.val, ttl |-> ExtendSeconds],
          held |-> TRUE, evald |-> TRUE]

ExtendOut(h) ==
    IF ~acquired[h]
    THEN [res |-> "LockNotHeld", store |-> store, held |-> FALSE, evald |-> FALSE]
    ELSE IF ~storeUp
    THEN [res |-> "Error", store |-> store, held |-> TRUE, evald |-> FALSE]
    ELSE IF ~ScriptMatch(h)
    THEN [res |-> "LockNotHeld", store |-> store, held |-> FALSE, evald |-> TRUE]
    ELSE [res |-> "OK", store |-> [val |-> store.val, ttl |-> ExtendSeconds],
          held |-> TRUE, evald |-> TRUE]

IsHeld(h) == acquired[h]

\* Effect of one handle call on the shared key, the handle and the history.
ApplyLock(h, out) ==
    /\ store' = out.store
    /\ acquired' = [acquired EXCEPT ![h] = out.held]
    /\ expiredHeld' = IF out.res = "OK" \/ ~out.held
                      THEN expiredHeld \ {h} ELSE expiredHeld

LockAcquire(h) ==
    /\ ApplyLock(h, AcquireOut(h))
    /\ lastOp' = [h |-> h, op |-> "Acquire", res |-> AcquireOut(h).res,
                  evald |-> AcquireOut(h).evald]
    /\ UNCHANGED <<storeUp, queueVars, workVars, schedVars>>

LockRelease(h) ==
    /\ ApplyLock(h, ReleaseOut(h))
    /\ lastOp' = [h |-> h, op |-> "Release", res |-> ReleaseOut(h).res,
                  evald |-> ReleaseOut(h).evald]
    /\ UNCHANGED <<storeUp, queueVars, workVars, schedVars>>

LockExtend(h) ==
    /\ ApplyLock(h, ExtendOut(h))
    /\ lastOp' = [h |-> h, op |-> "Extend", res |-> ExtendOut(h).res,
                  evald |-> ExtendOut(h).evald]
    /\ UNCHANGED <<storeUp, queueVars, workVars, schedVars>>

\* One second passes on the Redis clock; a key whose TTL runs out is deleted
\* (a key stored without a TTL never is).
ClockTick ==
    /\ store.val # NoToken
    /\ store.ttl > 0
    /\ IF store.ttl > 1
       THEN /\ store' = [store EXCEPT !.ttl = store.ttl - 1]
            /\ UNCHANGED expiredHeld
       ELSE /\ store' = EmptyKey
            /\ expiredHeld' =
                 expiredHeld \cup {h \in Inst : Token(h) = store.val /\ acquired[h]}
    /\ UNCHANGED <<storeUp, acquired, lastOp, queueVars, workVars, schedVars>>

StoreDown ==
    /\ storeUp
    /\ storeUp' = FALSE
    /\ UNCHANGED <<store, acquired, lastOp, expiredHeld, queueVars, workVars, schedVars>>

StoreRecover ==
    /\ ~storeUp
    /\ storeUp' = TRUE
    /\ UNCHANGED <<store, acquired, lastOp, expiredHeld, queueVars, workVars, schedVars>>

\* --------------------------------------------------- queue and one batch
Range(s) == {s[n] : n \in DOMAIN s}

RECURSIVE FirstN(_, _)
\* The first n elements of S in ascending order: ORDER BY created_at ASC, id ASC
\* LIMIT n (rows are numbered in creation order).
FirstN(S, n) ==
    IF n = 0 \/ S = {}
    THEN <<>>
    ELSE LET m == CHOOSE x \in S : \A y \in S : x <= y
         IN  <<m>> \o FirstN(S \ {m}, n - 1)

\* Variant of Eligible: the WHERE clause without sent = FALSE.
EligibleAnySent(w) ==
    {m \in Msgs : m \in valid /\ rowLock[m] \in {NoWorker, w}}

\* WHERE sent = FALSE AND <shape filter> ... FOR UPDATE SKIP LOCKED
Eligible(w) ==
    {m \in Msgs : ~sent[m] /\ m \in valid /\ rowLock[m] \in {NoWorker, w}}

\* Variant of GetUnsentMessages: the SELECT without its LIMIT.
GetUnsentMessagesNoLimit(w, limit) == FirstN(Eligible(w), NumMsgs)

\* Variant of GetUnsentMessages: the selected rows are returned newest first.
GetUnsentMessagesDesc(w, limit) ==
    LET rows == FirstN(Eligible(w), limit)
    IN  [n \in 1..Len(rows) |-> rows[Len(rows) + 1 - n]]

GetUnsentMessages(w, limit) == FirstN(Eligible(w), limit)

\* Variant of UpdatedRows: the UPDATE without id = $1.
UpdatedRowsAnyId(m) == {x \in Msgs : ~sent[x]}

\* Variant of UpdatedRows: the UPDATE without sent = FALSE.
UpdatedRowsNoSentCheck(m) == {x \in Msgs : x = m}

\* UPDATE messages SET sent = TRUE WHERE id = $1 AND sent = FALSE
UpdatedRows(m) == {x \in Msgs : x = m /\ ~sent[x]}

RowsAffected(m) == Cardinality(UpdatedRows(m))

\* Variant of CacheOutcome: a failed cache write fails the message.
CacheOutcomeStrict(ok) == IF ok THEN "nil" ELSE "cacheErr"

\* processSingleMessage after SetDeliveryCache: the error is printed, nil returned.
CacheOutcome(ok) == "nil"

Ev(op, m, ok) == [op |-> op, m |-> m, ok |-> ok]

\* ProcessMessages returns to its caller with result r.
Return(w, r) ==
    /\ pc' = [pc EXCEPT ![w] = "ret"]
    /\ res' = [res EXCEPT ![w] = r]

\* The SELECT runs on the server: it locks and returns the rows, or fails.
ClaimQuery(w) ==
    /\ pc[w] = "claim"
    /\ \/ LET rows == GetUnsentMessages(w, BatchLimit)
          IN  /\ batch' = [batch EXCEPT ![w] = rows]
              /\ rowLock' = [m \in Msgs |-> IF m \in Range(rows) THEN w ELSE rowLock[m]]
              /\ pc' = [pc EXCEPT ![w] = "fetched"]
              /\ log' = [log EXCEPT ![w] = Append(@, Ev("claim", 0, TRUE))]
              /\ UNCHANGED res
       \/ /\ Return(w, "claimErr")
          /\ log' = [log EXCEPT ![w] = Append(@, Ev("claim", 0, FALSE))]
          /\ UNCHANGED <<batch, rowLock>>
    /\ UNCHANGED <<lockVars, valid, sent, cache, sendOK, idx, schedVars>>

\* Variant of EmptyOutcome: an empty batch is reported as an error.
EmptyOutcomeError == "emptyErr"

\* ProcessMessages: if len(messages) == 0 { return nil }
EmptyOutcome == "ok"

\* The statement ends (rows.Close): db.QueryContext runs outside any transaction,
\* so the implicit transaction commits and the row locks are gone; ProcessMessages
\* then returns at once if the batch is empty.
ClaimClose(w) ==
    /\ pc[w] = "fetched"
    /\ rowLock' = [m \in Msgs |-> IF rowLock[m] = w THEN NoWorker ELSE rowLock[m]]
    /\ IF Len(batch[w]) = 0
       THEN /\ Return(w, EmptyOutcome)
            /\ UNCHANGED idx
       ELSE /\ pc' = [pc EXCEPT ![w] = "send"]
            /\ idx' = [idx EXCEPT ![w] = 1]
            /\ UNCHANGED res
    /\ UNCHANGED <<lockVars, valid, sent, cache, sendOK, batch, log, schedVars>>

\* processSingleMessage: smsProvider.SendMessage
Send(w) ==
    /\ pc[w] = "send"
    /\ LET m == batch[w][idx[w]]
       IN  \/ /\ sendOK' = sendOK \cup {m}
              /\ pc' = [pc EXCEPT ![w] = "mark"]
              /\ log' = [log EXCEPT ![w] = Append(@, Ev("send", m, TRUE))]
              /\ UNCHANGED res
           \/ /\ Return(w, "sendErr")
              /\ log' = [log EXCEPT ![w] = Append(@, Ev("send", m, FALSE))]
              /\ UNCHANGED sendOK
    /\ UNCHANGED <<lockVars, valid, sent, rowLock, cache, batch, idx, schedVars>>

\* processSingleMessage: messageRepo.MarkAsSent
MarkAsSent(w) ==
    /\ pc[w] = "mark"
    /\ LET m == batch[w][idx[w]]
       IN  /\ rowLock[m] \in {NoWorker, w}
           /\ \/ /\ RowsAffected(m) # 0
                 /\ sent' = [x \in Msgs |-> sent[x] \/ x \in UpdatedRows(m)]
                 /\ pc' = [pc EXCEPT ![w] = "cache"]
                 /\ log' = [log EXCEPT ![w] = Append(@, Ev("mark", m, TRUE))]
                 /\ UNCHANGED res
              \/ /\ Return(w, "markErr")
                 /\ log' = [log EXCEPT ![w] = Append(@, Ev("mark", m, FALSE))]
                 /\ UNCHANGED sent
    /\ UNCHANGED <<lockVars, valid, rowLock, cache, sendOK, batch, idx, schedVars>>

\* processSingleMessage: cacheRepo.SetDeliveryCache, then the loop of
\* ProcessMessages moves to the next message or returns nil.
CachePut(w) ==
    /\ pc[w] = "cache"
    /\ \E ok \in BOOLEAN :
         LET m == batch[w][idx[w]]
         IN  /\ ok => storeUp
             /\ cache' = IF ok THEN cache \cup {m} ELSE cache
             /\ log' = [log EXCEPT ![w] = Append(@, Ev("cache", m, ok))]
             /\ IF CacheOutcome(ok) # "nil"
                THEN /\ Return(w, CacheOutcome(ok))
                     /\ UNCHANGED idx
                ELSE IF idx[w] = Len(batch[w])
                THEN /\ Return(w, "ok")
                     /\ UNCHANGED idx
                ELSE /\ pc' = [pc EXCEPT ![w] = "send"]
                     /\ idx' = [idx EXCEPT ![w] = idx[w] + 1]
                     /\ UNCHANGED res
    /\ UNCHANGED <<lockVars, valid, sent, rowLock, sendOK, batch, schedVars>>

InBatch(w) == pc[w] \in {"claim", "fetched", "send", "mark", "cache"}

\* Loop goroutines of process i that are inside ProcessMessages.
Busy(i) == {k \in Tasks : InBatch(<<i, k>>)}

\* A worker's batch state before and after a ProcessMessages call.
ResetWork(w, p) ==
    /\ pc' = [pc EXCEPT ![w] = p]
    /\ batch' = [batch EXCEPT ![w] = <<>>]
    /\ idx' = [idx EXCEPT ![w] = 0]
    /\ res' = [res EXCEPT ![w] = "none"]
    /\ log' = [log EXCEPT ![w] = <<>>]

\* A caller invokes MessageService.ProcessMessages directly.
Call(w) ==
    /\ pc[w] = "none"
    /\ ResetWork(w, "claim")
    /\ UNCHANGED <<lockVars, queueVars, schedVars>>

CallReturn(w) ==
    /\ pc[w] = "ret"
    /\ ResetWork(w, "none")
    /\ UNCHANGED <<lockVars, queueVars, schedVars>>

\* ------------------------------------------------------------- scheduler
Alive(i) == {k \in Tasks : pc[<<i, k>>] # "none"}

\* Variant of UseLock: the lock is used whatever the constructor set.
UseLockAlways == TRUE

\* s.lockEnabled && s.distributedLock != nil: NewMessageScheduler leaves both
\* unset, NewMessageSchedulerWithLock sets both.
UseLock == lockEnabled

NoTicker == [st |-> "nil", owner |-> 0]

NoCtl == [op |-> "none", noop |-> FALSE]

\* A Start or Stop call has returned nil; noop: through its early return.
Ctl(op, noop) == [op |-> op, noop |-> noop]

\* Variant of AlreadyRunning: Start without the check of s.running.
AlreadyRunningIgnored(i) == FALSE

\* Start: if s.running { return nil }
AlreadyRunning(i) == running[i]

\* Variant of NotRunning: Stop without the check of s.running.
NotRunningIgnored(i) == FALSE

\* Stop: if !s.running { return nil }
NotRunning(i) == ~running[i]

\* Start: under runningMux; returns at once if already running, else a new
\* context replaces s.ctx and a loop goroutine is spawned (wg.Add(1);
\* go s.processMessages()).
Start(i) ==
    IF AlreadyRunning(i)
    THEN /\ lastCtl' = Ctl("Start", TRUE)
         /\ UNCHANGED <<lockVars, queueVars, workVars, lockEnabled, running, processing,
                        stoppers, oldCtx, extTicker, woken, waitFor, lastBatch>>
    ELSE /\ Alive(i) # Tasks
         /\ LET k == CHOOSE x \in Tasks \ Alive(i) : \A y \in Tasks \ Alive(i) : x <= y
            IN  /\ pc' = [pc EXCEPT ![<<i, k>>] = "begin"]
                /\ lastBatch' = [lastBatch EXCEPT ![<<i, k>>] = "none"]
         /\ running' = [running EXCEPT ![i] = TRUE]
         /\ oldCtx' = oldCtx \cup {<<i, k>> : k \in Alive(i)}
         /\ lastCtl' = Ctl("Start", FALSE)
         /\ UNCHANGED <<lockVars, queueVars, batch, idx, res, log, lockEnabled, processing,
                        stoppers, extTicker, woken, waitFor>>

\* Stop up to wg.Wait: returns at once if not running, else cancel,
\* running = false, lockExtendTicker.Stop(). A tick the ticker sent before it
\* was stopped may still sit in its channel ("buf").
StopCall(i) ==
    IF NotRunning(i)
    THEN /\ lastCtl' = Ctl("Stop", TRUE)
         /\ UNCHANGED <<lockVars, queueVars, workVars, lockEnabled, running, processing,
                        stoppers, oldCtx, extTicker, woken, waitFor, lastBatch>>
    ELSE /\ stoppers[i] + woken[i] < MaxStoppers
         /\ running' = [running EXCEPT ![i] = FALSE]
         /\ stoppers' = [stoppers EXCEPT ![i] = stoppers[i] + 1]
         /\ waitFor' = [calls |-> waitFor.calls \cup {<<i, k>> : k \in Busy(i)},
                        mid |-> IF Busy(i) # {} THEN waitFor.mid \cup {i} ELSE waitFor.mid]
         /\ IF extTicker[i].st = "live"
            THEN \E s \in {"stopped", "buf"} :
                    extTicker' = [extTicker EXCEPT ![i].st = s]
            ELSE UNCHANGED extTicker
         /\ UNCHANGED <<lockVars, queueVars, workVars, lockEnabled, processing, oldCtx,
                        woken, lastCtl, lastBatch>>

\* Stop: once every loop goroutine of the scheduler has exited, wg.Wait returns
\* in every Stop call blocked in it.
StopWake(i) ==
    /\ stoppers[i] > 0
    /\ Alive(i) = {}
    /\ stoppers' = [stoppers EXCEPT ![i] = 0]
    /\ woken' = [woken EXCEPT ![i] = woken[i] + stoppers[i]]
    /\ UNCHANGED <<lockVars, queueVars, workVars, lockEnabled, running, processing,
                   oldCtx, extTicker, waitFor, lastCtl, lastBatch>>

\* Stop after wg.Wait: the lock is released if the handle says held, then
\* Stop returns nil.
StopReturn(i) ==
    /\ woken[i] > 0
    /\ woken' = [woken EXCEPT ![i] = woken[i] - 1]
    /\ lastCtl' = Ctl("Stop", FALSE)
    /\ waitFor' = [waitFor EXCEPT !.mid = IF woken[i] = 1 THEN @ \ {i} ELSE @]
    /\ IF UseLock /\ IsHeld(i)
       THEN ApplyLock(i, ReleaseOut(i))
       ELSE UNCHANGED <<store, acquired, expiredHeld>>
    /\ UNCHANGED <<storeUp, lastOp, queueVars, workVars, lockEnabled, running, processing,
                   stoppers, oldCtx, extTicker, lastBatch>>

\* Variant of InitialBatch: the loop waits for its first tick.
InitialBatchOmitted == FALSE

\* processMessages calls processBatch once before it enters its select loop.
InitialBatch == TRUE

\* processBatch up to the call of ProcessMessages, entered from the top of
\* processMessages ("begin", which first creates the tickers) or from ticker.C.
BatchBegin(w) ==
    /\ pc[w] \in {"begin", "select"}
    /\ extTicker' = IF pc[w] = "begin" /\ UseLock
                    THEN [extTicker EXCEPT ![w[1]] = [st |-> "live", owner |-> w[2]]]
                    ELSE extTicker
    /\ IF pc[w] = "begin" /\ ~InitialBatch
       THEN /\ pc' = [pc EXCEPT ![w] = "select"]
            /\ UNCHANGED <<store, acquired, expiredHeld, batch, idx, res, log, processing,
                           lastBatch>>
       ELSE IF UseLock
       THEN /\ ApplyLock(w[1], AcquireOut(w[1]))
            /\ IF AcquireOut(w[1]).res = "OK"
               THEN /\ ResetWork(w, "claim")
                    /\ processing' = [processing EXCEPT ![w[1]] = TRUE]
                    /\ lastBatch' = [lastBatch EXCEPT ![w] = "running"]
               ELSE /\ ResetWork(w, "select")
                    /\ lastBatch' = [lastBatch EXCEPT ![w] = "skipped"]
                    /\ UNCHANGED processing
       ELSE /\ ResetWork(w, "claim")
            /\ processing' = [processing EXCEPT ![w[1]] = TRUE]
            /\ lastBatch' = [lastBatch EXCEPT ![w] = "running"]
            /\ UNCHANGED <<store, acquired, expiredHeld>>
    /\ lastOp' = IF lastOp.h = w[1] THEN NoOp ELSE lastOp
    /\ UNCHANGED <<storeUp, queueVars, lockEnabled, running, stoppers, oldCtx,
                   woken, waitFor, lastCtl>>

\* Variant of ReleaseOnExit: Release only after a batch that succeeded.
ReleaseOnSuccessOnly(r) == r = "ok"

\* processBatch: the Release is deferred, so it runs whatever ProcessMessages
\* returned.
ReleaseOnExit(r) == TRUE

\* Variant of LoopAfterBatch: a failed ProcessMessages ends the loop goroutine.
LoopAfterBatchFatal(r) == IF r = "ok" THEN "select" ELSE "none"

\* processBatch logs the error of ProcessMessages and returns to the loop of
\* processMessages, as it does after a success.
LoopAfterBatch(r) == "select"

\* processBatch after ProcessMessages returned: the deferred calls run
\* (processing = false, then Release) and the loop goes back to its select.
BatchReturn(w) ==
    /\ pc[w] = "ret"
    /\ ResetWork(w, LoopAfterBatch(res[w]))
    /\ processing' = [processing EXCEPT ![w[1]] = FALSE]
    /\ lastBatch' = [lastBatch EXCEPT ![w] = "ran"]
    /\ waitFor' = [waitFor EXCEPT !.calls = @ \ {w}]
    /\ IF UseLock /\ ReleaseOnExit(res[w])
       THEN ApplyLock(w[1], ReleaseOut(w[1]))
       ELSE UNCHANGED <<store, acquired, expiredHeld>>
    /\ UNCHANGED <<storeUp, lastOp, queueVars, lockEnabled, running, stoppers, oldCtx,
                   extTicker, woken, lastCtl>>

\* case <-s.getExtendChannel(): Extend if the handle says held.
ExtendTick(w) ==
    /\ pc[w] = "select"
    /\ UseLock
    /\ extTicker[w[1]].st \in {"live", "buf"}
    /\ extTicker' = IF extTicker[w[1]].st = "buf"
                    THEN [extTicker EXCEPT ![w[1]].st = "stopped"]
                    ELSE extTicker
    /\ IF IsHeld(w[1])
       THEN /\ ApplyLock(w[1], ExtendOut(w[1]))
            /\ lastOp' = [h |-> w[1], op |-> "Extend", res |-> ExtendOut(w[1]).res,
                          evald |-> ExtendOut(w[1]).evald]
       ELSE UNCHANGED <<store, acquired, expiredHeld, lastOp>>
    /\ UNCHANGED <<storeUp, queueVars, workVars, lockEnabled, running, processing,
                   stoppers, oldCtx, woken, waitFor, lastCtl, lastBatch>>

\* What <-s.ctx.Done() can yield: s.ctx is read without synchronisation, so a
\* goroutine started under a replaced context may see the old, cancelled one.
CtxDone(w) == ~running[w[1]] \/ w \in oldCtx

\* case <-s.ctx.Done(): return; the deferred calls stop the goroutine's tickers
\* and wg.Done().
LoopExit(w) ==
    /\ pc[w] = "select"
    /\ CtxDone(w)
    /\ pc' = [pc EXCEPT ![w] = "none"]
    /\ oldCtx' = oldCtx \ {w}
    /\ extTicker' = IF extTicker[w[1]].owner = w[2]
                    THEN [extTicker EXCEPT ![w[1]].st = "stopped"]
                    ELSE extTicker
    /\ UNCHANGED <<lockVars, queueVars, batch, idx, res, log, lockEnabled, running,
                   processing, stoppers, woken, waitFor, lastCtl, lastBatch>>

\* ------------------------------------------------------- specifications
InvalidChoices == {S \in SUBSET Msgs : Cardinality(S) <= MaxInvalid}

Init ==
    /\ store = EmptyKey
    /\ storeUp = TRUE
    /\ acquired = [h \in Inst |-> FALSE]
    /\ lastOp = NoOp
    /\ expiredHeld = {}
    /\ \E S \in InvalidChoices : valid = Msgs \ S
    /\ sent = [m \in Msgs |-> FALSE]
    /\ rowLock = [m \in Msgs |-> NoWorker]
    /\ cache = {}
    /\ sendOK = {}
    /\ pc = [w \in Workers |-> "none"]
    /\ batch = [w \in Workers |-> <<>>]
    /\ idx = [w \in Workers |-> 0]
    /\ res = [w \in Workers |-> "none"]
    /\ log = [w \in Workers |-> <<>>]
    /\ lockEnabled \in BOOLEAN
    /\ running = [i \in Inst |-> FALSE]
    /\ processing = [i \in Inst |-> FALSE]
    /\ stoppers = [i \in Inst |-> 0]
    /\ oldCtx = {}
    /\ extTicker = [i \in Inst |-> NoTicker]
    /\ woken = [i \in Inst |-> 0]
    /\ waitFor = [calls |-> {}, mid |-> {}]
    /\ lastCtl = NoCtl
    /\ lastBatch = [w \in Workers |-> "none"]

\* One dispatcher process over its whole life: Start and Stop in any order and
\* overlap (Start is called when stopped and Stop when running), its loop
\* goroutines and their batches; the lock key is contended by the handle of
\* another process, which acts on it at any time. The store stays reachable.
Proc == 1
Rival == 2
ProcWorkers == {<<Proc, k>> : k \in Tasks}

\* The other process runs with the same configuration: it uses its lock handle
\* only when distributed locking is enabled.
RivalAcquire ==
    /\ lockEnabled
    /\ ApplyLock(Rival, AcquireOut(Rival))
    /\ UNCHANGED <<storeUp, lastOp, queueVars, workVars, schedVars>>

RivalRelease ==
    /\ lockEnabled
    /\ IsHeld(Rival)
    /\ ApplyLock(Rival, ReleaseOut(Rival))
    /\ UNCHANGED <<storeUp, lastOp, queueVars, workVars, schedVars>>

NextSched ==
    \/ ~running[Proc] /\ Start(Proc)
    \/ running[Proc] /\ StopCall(Proc)
    \/ StopWake(Proc)
    \/ StopReturn(Proc)
    \/ \E w \in ProcWorkers : BatchBegin(w)
    \/ \E w \in ProcWorkers : BatchReturn(w)
    \/ \E w \in ProcWorkers : ExtendTick(w)
    \/ \E w \in ProcWorkers : LoopExit(w)
    \/ \E w \in ProcWorkers : ClaimQuery(w)
    \/ \E w \in ProcWorkers : ClaimClose(w)
    \/ \E w \in ProcWorkers : Send(w)
    \/ \E w \in ProcWorkers : MarkAsSent(w)
    \/ \E w \in ProcWorkers : CachePut(w)
    \/ RivalAcquire
    \/ RivalRelease
    \/ ClockTick

SpecSched == Init /\ [][NextSched]_vars

\* Several dispatcher processes with distributed locking enabled, each started
\* once and left running, sharing the lock key and the messages table.
Loops == {<<i, 1>> : i \in Inst}

Next ==
    \/ \E i \in Inst : ~running[i] /\ Start(i)
    \/ \E w \in Loops : BatchBegin(w)
    \/ \E w \in Loops : BatchReturn(w)
    \/ \E w \in Loops : ExtendTick(w)
    \/ \E w \in Loops : ClaimQuery(w)
    \/ \E w \in Loops : ClaimClose(w)
    \/ \E w \in Loops : Send(w)
    \/ \E w \in Loops : MarkAsSent(w)
    \/ \E w \in Loops : CachePut(w)
    \/ ClockTick
    \/ StoreDown
    \/ StoreRecover

InitLocked == Init /\ lockEnabled = TRUE

Spec == InitLocked /\ [][Next]_vars

\* The same cluster under the scheduling the code relies on: every process is
\* started, the tickers of a running loop keep firing, a batch that has begun
\* runs to its return (each call is bounded by the 30 s processing timeout) and
\* the store's clock advances.
Fairness ==
    /\ \A i \in Inst : WF_vars(~running[i] /\ Start(i))
    /\ \A w \in Loops : /\ WF_vars(BatchBegin(w))
                         /\ WF_vars(ExtendTick(w))
                         /\ WF_vars(ClaimQuery(w))
                         /\ WF_vars(ClaimClose(w))
                         /\ WF_vars(Send(w))
                         /\ WF_vars(MarkAsSent(w))
                         /\ WF_vars(CachePut(w))
                         /\ WF_vars(BatchReturn(w))
    /\ WF_vars(ClockTick)

SpecLive == InitLocked /\ [][Next]_vars /\ Fairness

\* The queue store and the provider answer in the end: a claim, a Send and a
\* MarkAsSent that are retried again and again eventually succeed.
RetryFairness ==
    \A w \in Loops : /\ SF_vars(ClaimQuery(w) /\ pc'[w] = "fetched")
                      /\ SF_vars(Send(w) /\ pc'[w] = "mark")
                      /\ SF_vars(MarkAsSent(w) /\ pc'[w] = "cache")

SpecRetry == InitLocked /\ [][Next]_vars /\ Fairness /\ RetryFairness

\* The process of loop goroutine w crashes: it takes no further step, its
\* database session ends (its row locks are dropped) and its key stays in the
\* store until it expires.
Crash(w) ==
    /\ pc[w] \notin {"none", "crashed"}
    /\ pc' = [pc EXCEPT ![w] = "crashed"]
    /\ rowLock' = [m \in Msgs |-> IF rowLock[m] = w THEN NoWorker ELSE rowLock[m]]
    /\ UNCHANGED <<lockVars, valid, sent, cache, sendOK, batch, idx, res, log, schedVars>>

Crashed == {w[1] : w \in {v \in Loops : pc[v] = "crashed"}}

\* The fair cluster in which at most one process crashes, the store stays
\* reachable and every row of the table passes the shape filter.
NextCrash ==
    \/ \E i \in Inst : ~running[i] /\ Start(i)
    \/ \E w \in Loops : BatchBegin(w)
    \/ \E w \in Loops : BatchReturn(w)
    \/ \E w \in Loops : ExtendTick(w)
    \/ \E w \in Loops : ClaimQuery(w)
    \/ \E w \in Loops : ClaimClose(w)
    \/ \E w \in Loops : Send(w)
    \/ \E w \in Loops : MarkAsSent(w)
    \/ \E w \in Loops : CachePut(w)
    \/ \E w \in Loops : Crashed = {} /\ Crash(w)
    \/ ClockTick

InitCrash == InitLocked /\ valid = Msgs

SpecCrash == InitCrash /\ [][NextCrash]_vars /\ Fairness

\* One dispatcher process whose Start and Stop are called in any state, also
\* when they have nothing to do; no other process and no store outage.
NextCtl ==
    \/ Start(Proc)
    \/ StopCall(Proc)
    \/ StopWake(Proc)
    \/ StopReturn(Proc)
    \/ \E w \in ProcWorkers : BatchBegin(w)
    \/ \E w \in ProcWorkers : BatchReturn(w)
    \/ \E w \in ProcWorkers : ExtendTick(w)
    \/ \E w \in ProcWorkers : LoopExit(w)
    \/ \E w \in ProcWorkers : ClaimQuery(w)
    \/ \E w \in ProcWorkers : ClaimClose(w)
    \/ \E w \in ProcWorkers : Send(w)
    \/ \E w \in ProcWorkers : MarkAsSent(w)
    \/ \E w \in ProcWorkers : CachePut(w)

SpecCtl == Init /\ [][NextCtl]_vars

\* One dispatcher process whose Start is called when it is stopped and whose
\* Stop is called when it is running, at any moment, under the scheduling the
\* code relies on: the ticker of a loop keeps firing, a batch that has begun
\* runs to its return (each call is
\* bounded by the 30 s processing timeout), a loop whose select finds the
\* context done again and again takes that case in the end (select chooses
\* among its ready cases at random), and a Stop whose wait is over goes on.
NextStop ==
    \/ ~running[Proc] /\ Start(Proc)
    \/ running[Proc] /\ StopCall(Proc)
    \/ StopWake(Proc)
    \/ StopReturn(Proc)
    \/ \E w \in ProcWorkers : BatchBegin(w)
    \/ \E w \in ProcWorkers : BatchReturn(w)
    \/ \E w \in ProcWorkers : ExtendTick(w)
    \/ \E w \in ProcWorkers : LoopExit(w)
    \/ \E w \in ProcWorkers : ClaimQuery(w)
    \/ \E w \in ProcWorkers : ClaimClose(w)
    \/ \E w \in ProcWorkers : Send(w)
    \/ \E w \in ProcWorkers : MarkAsSent(w)
    \/ \E w \in ProcWorkers : CachePut(w)

StopFairness ==
    /\ \A w \in ProcWorkers : /\ WF_vars(BatchBegin(w))
                               /\ WF_vars(ClaimQuery(w))
                               /\ WF_vars(ClaimClose(w))
                               /\ WF_vars(Send(w))
                               /\ SF_vars(MarkAsSent(w))
                               /\ WF_vars(CachePut(w))
                               /\ WF_vars(BatchReturn(w))
                               /\ SF_vars(LoopExit(w))
    /\ WF_vars(StopWake(Proc))
    /\ WF_vars(StopReturn(Proc))

SpecStop == Init /\ [][NextStop]_vars /\ StopFairness

\* C lock handles used directly, in any interleaving.
NextLock ==
    \/ \E h \in Inst : LockAcquire(h)
    \/ \E h \in Inst : LockRelease(h)
    \/ \E h \in Inst : LockExtend(h)
    \/ ClockTick
    \/ StoreDown
    \/ StoreRecover

SpecLock == Init /\ [][NextLock]_vars

\* One caller runs ProcessMessages, one call after the other.
Caller == <<1, 1>>

NextBatch ==
    \/ Call(Caller)
    \/ ClaimQuery(Caller)
    \/ ClaimClose(Caller)
    \/ Send(Caller)
    \/ MarkAsSent(Caller)
    \/ CachePut(Caller)
    \/ CallReturn(Caller)

SpecBatch == Init /\ [][NextBatch]_vars

\* One caller in each process runs ProcessMessages on the shared table.
Callers == {<<i, 1>> : i \in Inst}

NextRace ==
    \/ \E w \in Callers : Call(w)
    \/ \E w \in Callers : ClaimQuery(w)
    \/ \E w \in Callers : ClaimClose(w)
    \/ \E w \in Callers : Send(w)
    \/ \E w \in Callers : MarkAsSent(w)
    \/ \E w \in Callers : CachePut(w)
    \/ \E w \in Callers : CallReturn(w)

SpecRace == Init /\ [][NextRace]_vars

\* ---------------------------------------------------------------- claims
Held == {h \in Inst : IsHeld(h)}

\* Events of the current ProcessMessages call of worker w.
Events(w) == Range(log[w])

Claimed(w) == Range(batch[w])

\* Claimed rows a worker has not finished processing yet.
Pending(w) ==
    IF pc[w] = "fetched" THEN Claimed(w)
    ELSE IF pc[w] \in {"send", "mark"}
    THEN {batch[w][n] : n \in idx[w]..Len(batch[w])}
    ELSE IF pc[w] = "cache"
    THEN {batch[w][n] : n \in (idx[w] + 1)..Len(batch[w])}
    ELSE {}

\* What the next claim of worker w would return in the current state.
NextClaim(w) == Range(GetUnsentMessages(w, BatchLimit))

\* C1: with locking enabled, at most one dispatcher process is inside
\* ProcessMessages (between its successful Acquire and the return of the batch).
C1_OneActiveDispatcher ==
    lockEnabled => Cardinality({i \in Inst : Busy(i) # {}}) <= 1

\* C2 (as claimed): at most one handle reports IsHeld() = true.
C2_AtMostOneHeld == Cardinality(Held) <= 1

\* C2 (amended): at most one handle whose entry has not expired reports
\* IsHeld() = true; a handle whose entry expired still reports held.
C2_AtMostOneUnexpiredHeld == Cardinality(Held \ expiredHeld) <= 1

C2_Witness ==
    \E a, b \in Inst :
        /\ a # b
        /\ IsHeld(a) /\ a \in expiredHeld
        /\ IsHeld(b) /\ b \notin expiredHeld
        /\ store.val = Token(b)

\* The key holds the token of a handle other than h.
OwnedByOther(h) == store.val \notin {NoToken, Token(h)}

\* C3: Release and Extend of a held handle whose entry now carries another
\* handle's token return LockNotHeld (store reachable) and leave the entry and
\* its TTL as they were; no call of a handle changes an entry that carries
\* another handle's token.
C3_TokenSafety ==
    [][\A a \in Inst :
          /\ (OwnedByOther(a) /\ (LockAcquire(a) \/ LockRelease(a) \/ LockExtend(a)))
                => store' = store
          /\ (OwnedByOther(a) /\ IsHeld(a) /\ storeUp
                /\ (LockRelease(a) \/ LockExtend(a)))
                => (lastOp'.res = "LockNotHeld" /\ ~acquired'[a])]_vars

C3_Witness ==
    /\ lastOp.op \in {"Release", "Extend"}
    /\ lastOp.res = "LockNotHeld"
    /\ lastOp.evald
    /\ \E b \in Inst : /\ b # lastOp.h
                        /\ store.val = Token(b)
                        /\ IsHeld(b)
                        /\ store.ttl < LockTTL

\* Worker w has just had a successful SendMessage for message m.
SendSucceeds(w, m) ==
    pc[w] = "send" /\ pc'[w] = "mark" /\ batch[w][idx[w]] = m

With(w, op, ok) == {m \in Claimed(w) : Ev(op, m, ok) \in Events(w)}

Delivered(S) == {m \in S : sent[m]}

\* C5 (as claimed): when ProcessMessages returns, the delivered messages of the
\* batch are exactly those whose Send succeeded; the others are undelivered and
\* are returned by the next claim.
C5_SentEqualsDelivered ==
    pc[Caller] = "ret" =>
        /\ Delivered(Claimed(Caller)) = With(Caller, "send", TRUE)
        /\ Claimed(Caller) \ With(Caller, "send", TRUE) \subseteq NextClaim(Caller)

\* C5 (amended): when ProcessMessages returns, the delivered messages of the
\* batch are exactly those whose Send and MarkAsSent both succeeded; the others
\* are undelivered and are returned by the next claim.
C5_MarkedEqualsDelivered ==
    pc[Caller] = "ret" =>
        /\ Delivered(Claimed(Caller)) = With(Caller, "mark", TRUE)
        /\ With(Caller, "mark", TRUE) \subseteq With(Caller, "send", TRUE)
        /\ Claimed(Caller) \ With(Caller, "mark", TRUE) \subseteq NextClaim(Caller)

C5_Witness ==
    /\ pc[Caller] = "ret"
    /\ Len(batch[Caller]) = BatchLimit
    /\ With(Caller, "mark", TRUE) = {batch[Caller][1]}
    /\ With(Caller, "send", TRUE) = Claimed(Caller)
    /\ With(Caller, "mark", FALSE) = {batch[Caller][2]}

\* C6: when ProcessMessages returns after a claim, SendMessage has been invoked
\* for every claimed message, whatever failed before it in the batch.
C6_SendInvokedForAll ==
    (pc[Caller] = "ret" /\ res[Caller] # "claimErr") =>
        \A m \in Claimed(Caller) : \E ok \in BOOLEAN : Ev("send", m, ok) \in Events(Caller)

\* The batch of two whose first Send succeeded and whose second Send failed.
FirstOkSecondFails(w) ==
    /\ pc[w] = "ret"
    /\ Len(batch[w]) = 2
    /\ Ev("send", batch[w][1], TRUE) \in Events(w)
    /\ Ev("send", batch[w][2], FALSE) \in Events(w)

\* C7: first Send succeeds, second fails: the first message is delivered, the
\* second is not and MarkAsSent was not called for it, the call reports a
\* failure, and the next claim holds the second message and not the first.
C7_FirstSucceedsSecondFails ==
    FirstOkSecondFails(Caller) =>
        /\ sent[batch[Caller][1]]
        /\ ~sent[batch[Caller][2]]
        /\ \A ok \in BOOLEAN : Ev("mark", batch[Caller][2], ok) \notin Events(Caller)
        /\ res[Caller] \notin {"ok", "none"}
        /\ batch[Caller][2] \in NextClaim(Caller)
        /\ batch[Caller][1] \notin NextClaim(Caller)

C7_Witness ==
    /\ FirstOkSecondFails(Caller)
    /\ res[Caller] = "sendErr"
    /\ NextClaim(Caller) # {batch[Caller][2]}

\* Every claimed message was sent and marked, and every cache write failed.
AllSentCacheDown(w) ==
    /\ pc[w] = "ret"
    /\ Claimed(w) # {}
    /\ With(w, "send", TRUE) = Claimed(w)
    /\ With(w, "mark", TRUE) = Claimed(w)
    /\ With(w, "cache", TRUE) = {}

\* C8: when SetDeliveryCache fails for every message, the sent messages are
\* still marked delivered and ProcessMessages returns success.
C8_CacheFailureIgnored ==
    AllSentCacheDown(Caller) =>
        /\ res[Caller] = "ok"
        /\ \A m \in Claimed(Caller) : sent[m]
        /\ With(Caller, "cache", FALSE) = Claimed(Caller)

C8_Witness ==
    /\ AllSentCacheDown(Caller)
    /\ Len(batch[Caller]) = BatchLimit
    /\ Claimed(Caller) \cap cache = {}

\* C9: two processes never hold the same row as claimed at the same time.
C9_ClaimsDisjoint ==
    \A w1, w2 \in Workers : w1 # w2 => Pending(w1) \cap Pending(w2) = {}

\* C10: within one process at most one ProcessMessages call is in flight.
C10_OneBatchPerProcess == \A i \in Inst : Cardinality(Busy(i)) <= 1

\* The ProcessMessages calls of process i that were in flight when Stop was
\* called and have not returned yet.
StillInFlight(i) == {w \in waitFor.calls : w[1] = i}

\* C11: when Stop returns, every ProcessMessages call that was executing when
\* Stop was called has returned, and IsRunning() is false.
C11_StopWaitsAndStops ==
    [][\A i \in Inst : (StopReturn(i) /\ i \in waitFor.mid)
                           => (StillInFlight(i) = {} /\ ~running'[i])]_vars

\* No Stop call of process i is in progress.
NoStopPending(i) == stoppers[i] = 0 /\ woken[i] = 0

\* C12: Start called while the scheduler is running returns nil and changes
\* nothing (no loop goroutine is spawned, the context is not replaced), so
\* while no Stop is in progress a running scheduler has exactly one loop
\* goroutine alive.
C12_StartWhileRunningIsNoOp ==
    /\ [](\A i \in Inst : (running[i] /\ NoStopPending(i)) => Cardinality(Alive(i)) = 1)
    /\ [][\A i \in Inst : (running[i] /\ Start(i)) =>
              /\ lastCtl' = Ctl("Start", TRUE)
              /\ UNCHANGED <<lockVars, queueVars, workVars, lockEnabled, running,
                             processing, stoppers, oldCtx, extTicker, woken, waitFor,
                             lastBatch>>]_vars

C12_Witness ==
    /\ lastCtl = Ctl("Start", TRUE)
    /\ running[Proc]
    /\ Cardinality(Alive(Proc)) = 1
    /\ Busy(Proc) # {}

\* C13: Stop called while the scheduler is stopped returns nil and changes
\* nothing: no cancellation, no lock operation, no change of state.
C13_StopWhileStoppedIsNoOp ==
    [][\A i \in Inst : (~running[i] /\ StopCall(i)) =>
          /\ lastCtl' = Ctl("Stop", TRUE)
          /\ UNCHANGED <<lockVars, queueVars, workVars, lockEnabled, running, processing,
                         stoppers, oldCtx, extTicker, woken, waitFor, lastBatch>>]_vars

C13_Witness ==
    /\ lastCtl = Ctl("Stop", TRUE)
    /\ ~running[Proc]
    /\ NoStopPending(Proc)
    /\ Alive(Proc) = {}
    /\ lockEnabled
    /\ \E m \in Msgs : sent[m]

\* C14: a loop goroutine makes a batch attempt as the first thing it does
\* (it never waits in its select without having made one), every step that
\* takes it out of "begin" or out of its select into a batch is a processBatch
\* call, and it leaves the loop only on the shutdown signal.
C14_BatchFirstThenPerTick ==
    /\ [](\A w \in Workers :
            /\ (pc[w] = "select") => (lastBatch[w] \in {"ran", "skipped"})
            /\ (pc[w] = "begin") => (lastBatch[w] = "none"))
    /\ [][\A w \in Workers :
              /\ (pc[w] = "begin" /\ pc'[w] # "begin")
                    => (BatchBegin(w) /\ lastBatch'[w] \in {"running", "skipped"})
              /\ (pc[w] = "select" /\ pc'[w] = "claim")
                    => (BatchBegin(w) /\ lastBatch'[w] = "running")
              /\ (pc[w] # "none" /\ pc'[w] = "none")
                    => (pc[w] = "select" /\ CtxDone(w))]_vars

C14_Witness ==
    \E w \in ProcWorkers :
        /\ pc[w] = "claim"
        /\ running[Proc]
        /\ \E m \in Msgs : sent[m]
        /\ lastCtl = Ctl("Start", FALSE)
        /\ NoStopPending(Proc)
        /\ oldCtx = {}
        /\ waitFor.mid = {}

\* C15: with locking enabled, the key of a process stays in the store with
\* that process's token for as long as its batch is in flight: extension during
\* the batch keeps it from expiring.
C15_LockKeptDuringBatch ==
    lockEnabled => \A w \in Workers : InBatch(w) => store.val = Token(w[1])

\* C16: if the lock store is reachable from some point on, then again and again
\* some process acquires the lock and runs a batch.
C16_ResumesAfterOutage ==
    (<>[]storeUp) => []<>(\E w \in Loops : InBatch(w))

\* C17: whenever a crashed process's key is in the store, the key expires and
\* another process eventually acquires the lock and runs a batch.
C17_TakeoverAfterCrash ==
    \A i \in Inst :
        (i \in Crashed /\ store.val = Token(i))
            ~> (\E w \in Loops : w[1] # i /\ InBatch(w) /\ store.val = Token(w[1]))

C17_Witness ==
    \E i \in Inst :
        /\ i \in Crashed
        /\ i \in expiredHeld
        /\ \E w \in Loops : w[1] # i /\ InBatch(w) /\ store.val = Token(w[1])

\* A new cycle of worker w begins and the last thing done with its handle was
\* an Extend that failed on a store outage.
CycleAfterFailedExtend(w) ==
    /\ BatchBegin(w)
    /\ lastOp = [h |-> w[1], op |-> "Extend", res |-> "Error", evald |-> FALSE]

\* C18: a cycle that follows an Extend attempt that failed on a store outage
\* finds IsHeld() = false before it makes its fresh Acquire.
C18_NotHeldAfterFailedExtend ==
    [][\A w \in Workers : CycleAfterFailedExtend(w) => ~IsHeld(w[1])]_vars

\* C19: with locking enabled, a cycle whose Acquire finds the key present
\* (LockNotAcquired) or the store unreachable (backend error) calls neither
\* ProcessMessages nor Release: the key, the handle and the queue are left
\* as they were and the loop is back at its select.
C19_SkipWhenNotAcquired ==
    [][\A w \in Workers :
          (BatchBegin(w) /\ lockEnabled /\ (store.val # NoToken \/ ~storeUp)) =>
              /\ pc'[w] = "select"
              /\ lastBatch'[w] = "skipped"
              /\ batch'[w] = <<>>
              /\ UNCHANGED <<store, acquired, queueVars, processing>>]_vars

C19_Witness ==
    \E w, v \in Loops :
        /\ w # v
        /\ pc[w] = "select"
        /\ lastBatch[w] = "skipped"
        /\ ~IsHeld(w[1])
        /\ InBatch(v)
        /\ store.val = Token(v[1])
        /\ Eligible(w) # {}

\* The key has been set to handle b's token with the configured TTL.
AcquiredBy(b) ==
    /\ lastOp'.res = "OK"
    /\ store' = [val |-> Token(b), ttl |-> LockTTL]
    /\ IsHeld(b)'

C21_StopEndsExtensionAndReleases ==
    [][\A i \in Inst : (StopReturn(i) /\ lockEnabled /\ storeUp) =>
          /\ Alive(i)' = {}
          /\ ~IsHeld(i)'
          /\ store'.val # Token(i)]_vars

\* ProcessMessages has returned an error to worker w.
Failed(w) == pc[w] = "ret" /\ res[w] # "ok"

\* What the returned error carries: "failed to process message <id>: <cause>"
\* for a message of the batch, the cause alone when the claim failed.
FailureValue(w) ==
    IF res[w] = "claimErr"
    THEN [cause |-> res[w], id |-> 0]
    ELSE [cause |-> res[w], id |-> batch[w][idx[w]]]

\* Messages of the batch that the call sent and marked, and those it did not.
Counts(w) ==
    [succeeded |-> Cardinality(With(w, "mark", TRUE)),
     failed |-> Cardinality(Claimed(w) \ With(w, "mark", TRUE))]

\* Every message claimed by the call was sent and marked delivered by it.
AllDelivered(w) ==
    /\ With(w, "send", TRUE) = Claimed(w)
    /\ With(w, "mark", TRUE) = Claimed(w)
    /\ \A m \in Claimed(w) : sent[m]

\* C22: a ProcessMessages call whose claim succeeded returns success exactly
\* when every claimed message was sent and marked delivered, and a returned
\* failure reports the numbers of failed and successful messages of the batch:
\* two calls that return the same failure have the same numbers.
C22_AggregateOutcome ==
    /\ \A w \in Workers :
          (pc[w] = "ret" /\ res[w] # "claimErr") => (res[w] = "ok" <=> AllDelivered(w))
    /\ \A w1, w2 \in Workers :
          (Failed(w1) /\ Failed(w2) /\ FailureValue(w1) = FailureValue(w2))
              => Counts(w1) = Counts(w2)

\* The claim of worker w's call returned no row.
EmptyClaim(w) == batch[w] = <<>> /\ res[w] # "claimErr"

\* C23: when the claim returns no message, ProcessMessages returns success and
\* the claim is the only call it has made (no Send, MarkAsSent or cache
\* write); the queue and the cache are left as they were.
C23_EmptyBatchIsSuccess ==
    /\ [](\A w \in Workers :
            (pc[w] = "ret" /\ EmptyClaim(w)) =>
                (res[w] = "ok" /\ log[w] = <<Ev("claim", 0, TRUE)>>))
    /\ [][\A w \in Workers :
              ((ClaimQuery(w) \/ ClaimClose(w)) /\ EmptyClaim(w)') =>
                  /\ UNCHANGED queueVars
                  /\ ClaimClose(w) => (pc'[w] = "ret" /\ res'[w] = "ok")]_vars

C23_Witness ==
    /\ pc[Caller] = "ret"
    /\ EmptyClaim(Caller)
    /\ res[Caller] = "ok"
    /\ \E m \in Msgs : sent[m] /\ m \in cache
    /\ \E m \in Msgs : ~sent[m] /\ m \notin valid

\* Number of SendMessage invocations for message m in worker w's current call.
SendCalls(w, m) ==
    Cardinality({n \in DOMAIN log[w] : log[w][n].op = "send" /\ log[w][n].m = m})

\* The call claimed fewer rows than the batch limit and no Send or MarkAsSent
\* of it has failed.
ShortBatchNoFailure(w) ==
    /\ Len(batch[w]) > 0
    /\ Len(batch[w]) < BatchLimit
    /\ With(w, "send", FALSE) = {}
    /\ With(w, "mark", FALSE) = {}

\* C24: a claim made while fewer undelivered rows than the batch limit are
\* available returns exactly those rows; the call sends each of them once and,
\* nothing failing, returns success with all of them delivered; no call invokes
\* SendMessage for more than 2 messages, more than once for a message, or for a
\* message it did not claim.
C24_FewerThanLimit ==
    /\ [](\A w \in Workers :
            /\ Len(batch[w]) <= 2
            /\ \A m \in Msgs : SendCalls(w, m) <= 1
            /\ \A m \in Msgs \ Claimed(w) : SendCalls(w, m) = 0
            /\ (pc[w] = "ret" /\ ShortBatchNoFailure(w)) =>
                   /\ res[w] = "ok"
                   /\ \A m \in Claimed(w) : SendCalls(w, m) = 1 /\ sent[m])
    /\ [][\A w \in Workers :
              (ClaimQuery(w) /\ pc'[w] = "fetched"
                  /\ Cardinality(Eligible(w)) < BatchLimit) =>
                  Range(batch'[w]) = Eligible(w)]_vars

C24_Witness ==
    /\ pc[Caller] = "ret"
    /\ res[Caller] = "ok"
    /\ Len(batch[Caller]) = 1
    /\ valid = Msgs
    /\ \A m \in Msgs : sent[m]
    /\ SendCalls(Caller, batch[Caller][1]) = 1

\* Worker w's MarkAsSent for message m has just updated the row.
Marks(w, m) ==
    /\ MarkAsSent(w)
    /\ batch[w][idx[w]] = m
    /\ pc'[w] = "cache"

\* C25: a row whose sent flag is true keeps it, and every change of a row's
\* flag is made by a MarkAsSent for that row.
C25_SentNeverReverts ==
    [][\A m \in Msgs :
          /\ sent[m] => sent'[m]
          /\ (sent'[m] # sent[m]) => \E w \in Workers : Marks(w, m)]_vars

C25_Witness ==
    \E w, v \in Callers :
        /\ w # v
        /\ pc[w] = "ret"
        /\ res[w] = "markErr"
        /\ sent[batch[w][idx[w]]]
        /\ Ev("mark", batch[w][idx[w]], TRUE) \in Events(v)

\* C26: in a cluster whose schedulers stay running, whose lock store is
\* reachable from some point on and whose claims, Sends and MarkAsSents succeed
\* after finitely many retries, every undelivered row that passes the shape
\* filter is eventually marked delivered.
C26_EveryValidMessageDelivered ==
    (<>[]storeUp) => \A m \in Msgs : ((m \in valid /\ ~sent[m]) ~> sent[m])

\* C27: when a call returns with a message of its batch still undelivered, the
\* next claim returns no row that was not in that batch.
C27_NoNewMessageUntilBatchDelivered ==
    (pc[Caller] = "ret" /\ \E m \in Claimed(Caller) : ~sent[m]) =>
        NextClaim(Caller) \subseteq Claimed(Caller)

\* C28: every Stop call of a running scheduler returns.
C28_StopReturns ==
    \A i \in Inst : (stoppers[i] + woken[i] > 0) ~> NoStopPending(i)

\* Worker w applies MarkAsSent to a row that is already marked delivered.
MarkAgain(w) == MarkAsSent(w) /\ sent[batch[w][idx[w]]]

\* C29 (as claimed): MarkAsSent applied to an already-delivered row leaves
\* every row's flag as it was and is a no-op for the caller, which goes on as
\* after a successful mark.
C29_MarkAgainIsHarmless ==
    [][\A w \in Workers : MarkAgain(w) => (sent' = sent /\ pc'[w] = "cache")]_vars

\* C29 (amended): MarkAsSent applied to an already-delivered row leaves every
\* row's flag as it was and returns an error to the caller: the
\* ProcessMessages call ends there with a failure.
C29_MarkAgainKeepsFlagsAndFails ==
    [][\A w \in Workers :
          MarkAgain(w) => (sent' = sent /\ pc'[w] = "ret" /\ res'[w] = "markErr")]_vars

C29_Witness ==
    \E w, v \in Callers :
        /\ w # v
        /\ Len(batch[v]) > 0
        /\ Failed(w)
        /\ res[w] = "markErr"
        /\ FailureValue(w) = [cause |-> "markErr", id |-> batch[v][1]]
        /\ Ev("send", batch[v][1], TRUE) \in Events(w)
        /\ Ev("mark", batch[v][1], TRUE) \in Events(v)
        /\ pc[v] = "ret"
        /\ res[v] = "ok"

\* C30: with locking enabled, a loop enters ProcessMessages only in a
\* processBatch whose Acquire has just succeeded (the key then carries the
\* process's token with the configured TTL), it leaves a returned
\* ProcessMessages call, whatever the result, only through the deferred
\* Release, after which it is back at its select, and a Release made with the
\* store reachable leaves the handle not held and the key without the
\* process's token.
C30_BatchBracketedByLock ==
    [][\A w \in Workers : lockEnabled =>
          /\ (pc[w] # "claim" /\ pc'[w] = "claim") =>
                /\ BatchBegin(w)
                /\ AcquireOut(w[1]).res = "OK"
                /\ store' = [val |-> Token(w[1]), ttl |-> LockTTL]
                /\ IsHeld(w[1])'
          /\ (pc[w] = "ret" /\ pc'[w] # "ret") =>
                /\ BatchReturn(w)
                /\ pc'[w] = "select"
                /\ store' = ReleaseOut(w[1]).store
                /\ IsHeld(w[1])' = ReleaseOut(w[1]).held
                /\ storeUp => (~IsHeld(w[1])' /\ store'.val # Token(w[1]))]_vars

C30_Witness ==
    \E w \in Loops :
        /\ pc[w] = "select"
        /\ lastBatch[w] = "ran"
        /\ storeUp
        /\ ~IsHeld(w[1])
        /\ store.val = NoToken
        /\ expiredHeld = {}
        /\ \E m \in Msgs : m \in sendOK /\ ~sent[m]
        /\ \E m \in Msgs : sent[m]

\* The extend case of worker w's loop calls Extend on a held handle while the
\* store is reachable and the key does not carry the handle's token.
ExtendAfterLoss(w) ==
    /\ ExtendTick(w)
    /\ IsHeld(w[1])
    /\ storeUp
    /\ ~ScriptMatch(w[1])

\* C31: an Extend on a held handle whose entry no longer equals its token
\* returns LockNotHeld, clears the handle's held flag and leaves the entry as
\* it was; it touches no batch: every worker's position, batch and result,
\* the queue and the scheduler state are unchanged.
C31_ExtendAfterLossKeepsBatch ==
    [][\A w \in Workers : ExtendAfterLoss(w) =>
          /\ lastOp' = [h |-> w[1], op |-> "Extend", res |-> "LockNotHeld", evald |-> TRUE]
          /\ ~IsHeld(w[1])'
          /\ store' = store
          /\ UNCHANGED <<queueVars, workVars, running, processing>>]_vars

C31_Witness ==
    \E w, v \in Loops :
        /\ w # v
        /\ lastOp = [h |-> w[1], op |-> "Extend", res |-> "LockNotHeld", evald |-> TRUE]
        /\ ~IsHeld(w[1])
        /\ InBatch(v)
        /\ store.val = Token(v[1])
        /\ store.ttl < LockTTL
        /\ pc[v] = "mark"

\* C32: Release on a handle that is not held returns LockNotHeld without
\* running the script on the store (so also while the store is unreachable):
\* the entry, whoever owns it, and every handle's held flag are unchanged.
C32_ReleaseNotHeld ==
    [][\A h \in Inst : (LockRelease(h) /\ ~IsHeld(h)) =>
          /\ lastOp' = [h |-> h, op |-> "Release", res |-> "LockNotHeld", evald |-> FALSE]
          /\ store' = store
          /\ acquired' = acquired
          /\ ~IsHeld(h)']_vars

C32_Witness ==
    \E a, b \in Inst :
        /\ a # b
        /\ lastOp = [h |-> b, op |-> "Release", res |-> "LockNotHeld", evald |-> FALSE]
        /\ ~IsHeld(b)
        /\ store.val = Token(a)
        /\ IsHeld(a)
        /\ store.ttl < LockTTL

\* A step of worker w's loop in which Acquire, ProcessMessages, Release or
\* Extend fails.
FailureStep(w) ==
    \/ BatchBegin(w) /\ lockEnabled /\ AcquireOut(w[1]).res # "OK"
    \/ BatchReturn(w) /\ res[w] # "ok"
    \/ BatchReturn(w) /\ lockEnabled /\ ReleaseOut(w[1]).res # "OK"
    \/ ExtendTick(w) /\ IsHeld(w[1]) /\ ExtendOut(w[1]).res # "OK"

\* C33: a failure of Acquire, Release, Extend or ProcessMessages leaves the
\* loop goroutine alive at its select and the scheduler state as it was, and a
\* loop at its select can always start a new batch attempt.
C33_FailuresDoNotStopLoop ==
    /\ [](\A w \in Workers : pc[w] = "select" => ENABLED BatchBegin(w))
    /\ [][\A w \in Workers : FailureStep(w) =>
              /\ pc'[w] = "select"
              /\ running' = running
              /\ UNCHANGED <<stoppers, woken, oldCtx>>]_vars

C33_Witness ==
    \E w \in Loops :
        /\ pc[w] = "select"
        /\ running[w[1]]
        /\ lastBatch[w] = "ran"
        /\ IsHeld(w[1])
        /\ lastOp = [h |-> w[1], op |-> "Extend", res |-> "Error", evald |-> FALSE]
        /\ \E m \in Msgs : m \in sendOK /\ ~sent[m]

\* Rows that are undelivered and pass the shape filter.
Undelivered == {m \in Msgs : ~sent[m] /\ m \in valid}

\* rows are in ascending creation order (rows are numbered in creation order).
Ascending(rows) == \A j, n \in DOMAIN rows : j < n => rows[j] < rows[n]

\* rows are the oldest members of S, as many as the batch limit allows.
Oldest(S, rows) ==
    /\ Range(rows) \subseteq S
    /\ \A m \in Range(rows) : \A x \in S : x < m => x \in Range(rows)
    /\ Len(rows) = IF Cardinality(S) < BatchLimit THEN Cardinality(S) ELSE BatchLimit

\* In worker w's call a message of the batch has had its Send only after every
\* earlier message of the batch was sent, marked and passed to the cache write.
SendInClaimOrder(w) ==
    \A n \in DOMAIN batch[w] :
        (\E ok \in BOOLEAN : Ev("send", batch[w][n], ok) \in Events(w)) =>
            \A j \in 1..(n - 1) :
                /\ Ev("send", batch[w][j], TRUE) \in Events(w)
                /\ Ev("mark", batch[w][j], TRUE) \in Events(w)
                /\ \E ok \in BOOLEAN : Ev("cache", batch[w][j], ok) \in Events(w)

\* Worker w's claim has just returned its rows.
Claims(w) == ClaimQuery(w) /\ pc'[w] = "fetched"

\* C34 (as claimed): a claim returns the oldest undelivered shape-valid rows in
\* ascending creation order, and Send is invoked on them in that order, each
\* after the processing of the one before it has finished.
C34_OldestUndeliveredInOrder ==
    /\ [](\A w \in Workers : SendInClaimOrder(w))
    /\ [][\A w \in Workers : Claims(w) =>
              (Ascending(batch'[w]) /\ Oldest(Undelivered, batch'[w]))]_vars

\* C34 (amended): a claim returns the oldest undelivered shape-valid rows that
\* no concurrent claim holds locked, in ascending creation order, and Send is
\* invoked on them in that order, each after the processing of the one before
\* it has finished.
C34_OldestUnlockedInOrder ==
    /\ [](\A w \in Workers : SendInClaimOrder(w))
    /\ [][\A w \in Workers : Claims(w) =>
              (Ascending(batch'[w]) /\ Oldest(Eligible(w), batch'[w]))]_vars

C34_Witness ==
    \E w, v \in Callers :
        /\ w # v
        /\ pc[v] = "fetched"
        /\ Len(batch[v]) = BatchLimit
        /\ pc[w] = "send"
        /\ Len(batch[w]) = 1
        /\ \A m \in Claimed(v) : ~sent[m] /\ m < batch[w][1]

\* The oldest row of a non-empty set of rows.
Min(S) == CHOOSE x \in S : \A y \in S : x <= y

\* Shape-valid rows for which no Send has succeeded so far.
NeverSent == {m \in valid : m \notin sendOK}

\* C35 (as claimed): a shape-valid message whose Send has failed on every
\* attempt is not delivered and no message created after it is delivered, and
\* every claim returns the oldest undelivered shape-valid message first.
C35_HeadFailureStarves ==
    /\ [](\A m \in NeverSent : \A x \in Msgs : x >= m => ~sent[x])
    /\ [][\A w \in Workers : (Claims(w) /\ Undelivered # {}) =>
              (batch'[w] # <<>> /\ batch'[w][1] = Min(Undelivered))]_vars

\* C35 (amended): a shape-valid message whose Send has failed on every attempt
\* is not delivered, every claim that does not find it locked by a concurrent
\* claim returns the oldest such row first, and a message created after it is
\* marked delivered only by a batch that does not hold it, claimed while it
\* was locked.
C35_HeadFailureStarvesUnlessSkipped ==
    /\ [](\A m \in NeverSent : ~sent[m])
    /\ [][\A w \in Workers :
              /\ (Claims(w) /\ Eligible(w) # {}) =>
                    (batch'[w] # <<>> /\ batch'[w][1] = Min(Eligible(w)))
              /\ \A m \in NeverSent : \A x \in Msgs :
                    (x > m /\ Marks(w, x)) => m \notin Claimed(w)]_vars

C35_Witness ==
    \E w, v \in Callers : \E m \in NeverSent : \E x \in Msgs :
        /\ w # v
        /\ x > m
        /\ sent[x]
        /\ Ev("mark", x, TRUE) \in Events(w)
        /\ m \notin Claimed(w)
        /\ Ev("send", m, FALSE) \in Events(v)

\* C36: with locking disabled no lock operation is invoked (the key, the
\* handles and the record of the last lock call stay as constructed and no
\* batch is skipped for the lock), the extension ticker is never created and
\* its case never fires, every tick goes straight into ProcessMessages, and the
\* loop leaves its select only for a tick or for shutdown.
C36_NoLockWhenDisabled ==
    /\ [](~lockEnabled =>
            /\ store = EmptyKey
            /\ acquired = [h \in Inst |-> FALSE]
            /\ expiredHeld = {}
            /\ lastOp = NoOp
            /\ \A i \in Inst : extTicker[i] = NoTicker
            /\ \A w \in Workers : lastBatch[w] # "skipped")
    /\ [][~lockEnabled => \A w \in Workers :
              /\ ~ExtendTick(w)
              /\ BatchBegin(w) => (pc'[w] = "claim" /\ processing'[w[1]])
              /\ (pc[w] = "select" /\ pc'[w] # "select") =>
                    (BatchBegin(w) \/ LoopExit(w))]_vars

C36_Witness ==
    \E w \in ProcWorkers : \E m \in Msgs :
        /\ ~lockEnabled
        /\ pc[w] = "select"
        /\ lastBatch[w] = "ran"
        /\ running[w[1]]
        /\ sent[m]
        /\ ~sent[NumMsgs]
        /\ store = EmptyKey

\* C37: whenever IsRunning() is false, no loop goroutine of the scheduler is
\* alive and no ProcessMessages call of it is in flight.
C37_StoppedMeansNoLoop ==
    \A i \in Inst : ~running[i] => (Alive(i) = {} /\ Busy(i) = {})

\* Start has been called on scheduler i while a Stop call of it had not yet
\* returned: running is true again with that Stop still in progress.
StartDuringStop(i) == running[i] /\ ~NoStopPending(i)

\* C38: after a Start called while Stop is blocked in its wait, Stop returns,
\* the loop goroutine that was being stopped has exited, and at most one loop
\* goroutine is alive, alive exactly when IsRunning() is true.
C38_StartDuringStopSettles ==
    \A i \in Inst :
        StartDuringStop(i) ~>
            /\ NoStopPending(i)
            /\ \A w \in oldCtx : w[1] # i
            /\ Cardinality(Alive(i)) <= 1
            /\ (Alive(i) # {}) <=> running[i]

\* Worker w invokes SendMessage for row m.
SendsFor(w, m) == Send(w) /\ batch[w][idx[w]] = m

\* C39: with a single dispatcher, Send is invoked for a shape-valid message
\* only when every shape-valid message created before it is marked delivered.
C39_StrictCreationOrder ==
    [][\A w \in Workers : \A a, b \in valid :
          (a < b /\ SendsFor(w, b)) => sent[a]]_vars

\* The events of worker w's current call keep the order of processSingleMessage:
\* a MarkAsSent comes right after the successful Send of the same message, a
\* cache Put right after its successful MarkAsSent, and a failed Send is the
\* last event of the call.
LifecycleOrder(w) ==
    \A n \in DOMAIN log[w] :
        /\ log[w][n].op = "mark" =>
              (n > 1 /\ log[w][n - 1] = Ev("send", log[w][n].m, TRUE))
        /\ log[w][n].op = "cache" =>
              (n > 1 /\ log[w][n - 1] = Ev("mark", log[w][n].m, TRUE))
        /\ log[w][n] = Ev("send", log[w][n].m, FALSE) => n = Len(log[w])

\* C40: every message marked delivered has had a successful Send, a message
\* becomes delivered only in a call that sent it successfully before, every
\* delivery record in the cache belongs to a message marked delivered, and per
\* call the order Send success, MarkAsSent, cache Put is kept, with nothing
\* after a failed Send.
C40_SendThenMarkThenCache ==
    /\ [](/\ \A m \in Msgs : sent[m] => m \in sendOK
          /\ \A m \in cache : sent[m]
          /\ \A w \in Workers : LifecycleOrder(w))
    /\ [][\A w \in Workers : \A m \in Msgs :
              (~sent[m] /\ sent'[m] /\ MarkAsSent(w)) =>
                  (batch[w][idx[w]] = m /\ Ev("send", m, TRUE) \in Events(w))]_vars

C40_Witness ==
    \E w, v \in Callers : \E m, x \in Msgs :
        /\ w # v
        /\ m \in cache
        /\ sent[m]
        /\ Ev("cache", m, TRUE) \in Events(w)
        /\ Len(log[v]) > 0
        /\ log[v][Len(log[v])] = Ev("send", x, FALSE)
        /\ ~sent[x]
        /\ x \notin cache

====
